---- MODULE Spec2Model ----
(***************************************************************************)
(* pyDAPLink client transport (pyDAPLink/client/transport.py): the         *)
(* DAPLinkClientTransport session with its reentrant device lock, its      *)
(* deferred transfers and its pipelined reads, run against a broker that   *)
(* reserves the device for one connection at a time.                       *)
(*                                                                         *)
(* A session executes one method at a time.  A method is unfolded into a   *)
(* sequence of instructions (cont); every step executes the instruction at *)
(* the head: one round trip of _command, or one local statement.  An       *)
(* exception discards the instructions up to the __exit__ of each          *)
(* enclosing "with self" block, which still run.                           *)
(*                                                                         *)
(* The local stream transport (pyDAPLink/socket/unix_socket.py) is the     *)
(* second part: a UnixServer whose accept() waits on the listening socket  *)
(* and on an interrupt pair, run by one thread while another thread calls  *)
(* open(), shutdown() and close(), and a UnixConnection with its peer.     *)
(***************************************************************************)
EXTENDS Integers, Sequences, FiniteSets, TLC

\* ---------------------------------------------------------------- bounds
MaxAttempts == 2   \* lock_attempts is drawn from 0..MaxAttempts
MaxBusy == 3       \* selected:false replies the broker gives one lock() call
MaxDepth == 2      \* explicit lock() calls are made below this depth
MaxUnder == 1      \* unlock() calls made while already unlocked
MaxReads == 3      \* read requests issued by one session
MaxQueue == 3      \* operations buffered at the broker for one session
MaxPending == 2    \* client connections waiting in the listener's backlog
MaxSignals == 2    \* shutdown() calls made on one interrupt pair
MaxData == 2       \* messages of the peer waiting to be received

\* ------------------------------------------------------- program constants
READ_START == 1
READ_NOW == 2
READ_END == 3
DefaultAttempts == 5   \* init(): lock_attempts=5

Sessions == {"s1", "s2"}
Main == "s1"

VARIABLES
    \* fields of DAPLinkClientTransport, per session
    nested_locks, lock_attempts, new_socket, deferred_transfer, buffer,
    \* control: the local variable of lock(), the instructions left to run,
    \* the exception in flight (or the one the last method raised), whether
    \* init()/uninit() were called, and the state of the session's client
    attempts, cont, exc, phase, conn,
    \* broker: who holds the device, whether the device id is known, and the
    \* transfers buffered for each connection
    holder, known, queue,
    \* history: the method running (or run last: its name, read mode, first
    \* argument, deferred_transfer and upset at its entry, the writes buffered
    \* and the reads outstanding at its entry), nested_locks at its entry,
    \* the commands it sent with their replies, the value it returned,
    \* read requests issued / results consumed, whether a command or a
    \* connection ever failed or a select was ever refused (upset), lock()
    \* calls minus unlock() calls and unlock() calls made at depth 0 (both
    \* counted until upset),
    \* the board_select and board_deselect requests sent and the depth
    \* reached since the session was last unlocked (until upset), and
    \* whether the caller always kept to the rule of the read modes
    op, depth0, wire, ret, issued, consumed, upset, net, noops, traffic, proper

fields == <<nested_locks, lock_attempts, new_socket, deferred_transfer, buffer>>
control == <<attempts, cont, exc, phase, conn>>
broker == <<holder, known, queue>>
calls == <<net, noops, traffic>>
history == <<op, depth0, wire, ret, issued, consumed, upset, calls, proper>>
session == <<fields, control, broker, history>>

VARIABLES
    \* UnixServer: _isalive, _socket ("unset" before the first open()),
    \* _shutdown_pipe (its state and the sentinels written to it, which
    \* nothing ever reads), what the file system holds at self.address, and
    \* the client connections waiting in the backlog
    srv_isalive, srv_socket, shutdown_pipe, node, pending,
    \* the thread that calls accept(): where it is (pc), what the last call
    \* returned or raised (ret), whether shutdown() began while the call was
    \* waiting in select (interrupted), what stopped was when it began
    \* (after), and whether open() or close() replaced or closed the sockets
    \* under it (torn); and where the thread that calls shutdown() is
    acc, stopper,
    \* history: the last of open(), shutdown(), close() with what was at the
    \* address before it and its outcome; and whether shutdown() has returned
    \* since the last close() ("yes", or "reopened" once open() was called
    \* after it)
    did, stopped,
    \* UnixConnection: _isalive, _socket, the peer's end, the messages
    \* waiting to be received; history: the last send() or recv() with its
    \* outcome and whether it was made after recv() had returned empty
    \* (late), and whether recv() ever returned empty
    con_isalive, con_socket, peer, inbox, con_did, eof

listener == <<srv_isalive, srv_socket, shutdown_pipe, node, pending>>
threads == <<acc, stopper>>
connection == <<con_isalive, con_socket, peer, inbox, con_did, eof>>
unix == <<listener, threads, did, stopped, connection>>

vars == <<session, unix>>

\* ------------------------------------------------------------ instructions
Ins(i, a) == [i |-> i, a |-> a]

IsExit(x) == x.i = "exit"

\* What an exception leaves to run: the __exit__ of each enclosing
\* with-block, in order, and the return to the caller.
Unwinds(x) == x.i \in {"exit", "return"}
Handlers(rest) == SelectSeq(rest, Unwinds)

RECURSIVE AfterWith(_)
\* What follows the with-block whose body starts rest.
AfterWith(rest) ==
    IF rest = <<>> THEN <<>>
    ELSE IF IsExit(Head(rest)) THEN Tail(rest)
    ELSE AfterWith(Tail(rest))

Idle(s) == cont[s] = <<>>
NoOp == [name |-> "", mode |-> 0, arg |-> "", deferred |-> FALSE,
         clean |-> FALSE, buffered |-> 0, owed |-> 0]
NoTraffic == [sel |-> 0, des |-> 0, peak |-> 0]
Top(s) == Head(cont[s])
At(s, i) == cont[s] # <<>> /\ Head(cont[s]).i = i

\* "with self: body"
With(body) == <<Ins("enter", "")>> \o body \o <<Ins("exit", "")>>

Cmd(c) == Ins("cmd", c)

\* --------------------------------------------- the conditions of the code
\* A lock() that takes a second acquisition for the first.
Reentrant_OffByOne(n) == n > 2

\* lock(): "if self._nested_locks > 1: return", n being the count just
\* incremented.
Reentrant(n) == n > 1

\* A retry loop that allows one attempt too many.
LoopCond_Inclusive(budget, tried) == budget = 0 \/ tried <= budget

\* A retry loop without the "retry for ever" reading of a budget of 0.
LoopCond_NoSentinel(budget, tried) == tried < budget

\* lock(): "while (not self._lock_attempts or attempts < self._lock_attempts)".
LoopCond(budget, tried) == budget = 0 \/ tried < budget

\* lock(): what leaves the try block when board_select raises an error of
\* the given type.  The except clause names ServerError, which the module
\* never imports or defines: evaluating the clause raises NameError in place
\* of whatever was raised.
SelectExcept(type) == "NameError"

\* unlock(): "if self._nested_locks == 1" (board_deselect is sent).
NeedsDeselect(n) == n = 1

\* An unlock() that decrements whatever the count.
AfterUnlock_Unclipped(n) == n - 1

\* unlock(): "if self._nested_locks > 0: self._nested_locks -= 1".
AfterUnlock(n) == IF n > 0 THEN n - 1 ELSE n

\* A _write() that flushes in either mode.
WriteFlushes_Always(deferred) == TRUE

\* _write(): "if not self.deferred_transfer: self.flush()".
WriteFlushes(deferred) == ~deferred

\* A _read() that never flushes.
ReadFlushes_Never(buf) == FALSE

\* _read(): "if not self._buffer: self.flush()".
ReadFlushes(buf) == buf = <<>>

\* A setDeferredTransfer() that never flushes.
ToggleFlushes_Never(deferred, enable) == FALSE

\* setDeferredTransfer(): "if self.deferred_transfer and not enable".
ToggleFlushes(deferred, enable) == deferred /\ ~enable

\* read*(): "if mode in (READ_NOW, READ_START)" / "in (READ_NOW, READ_END)".
Requests(mode) == mode \in {READ_NOW, READ_START}
Consumes(mode) == mode \in {READ_NOW, READ_END}

\* A _read() that pops the newest result ("self._buffer.pop()").
PopValue_Last(buf) == buf[Len(buf)]

\* _read(): "self._buffer.pop(0)": the value returned and the buffer left.
PopValue(buf) == Head(buf)
PopRest(buf) == Tail(buf)

\* A flush() that replaces the buffer by the results received.
Extend_Replace(buf, reads) == reads

\* flush(): "self._buffer.extend(data['reads'])".
Extend(buf, reads) == buf \o reads

\* flush(): with self: data = command('flush'); extend the buffer.
FlushProg == With(<<Ins("flushcmd", "")>>)

\* ------------------------------------------------------------- the broker
\* Replies to board_select: an unknown id is a KeyError, a device held by
\* another connection is selected:false, and any command may fail otherwise.
SelectReplies(s) ==
    (IF ~known THEN {"KeyError"}
     ELSE IF holder \in {"free", s} THEN {"true"} ELSE {"false"})
    \cup {"error"}

\* The reply to flush: the results of the buffered reads, in request order.
IsRead(x) == x > 0
Reads(q) == SelectSeq(q, IsRead)

\* ----------------------------------------------------------------- steps
Set(f, s, v) == [f EXCEPT ![s] = v]

Raise(s, kind, handlers) ==
    /\ cont' = Set(cont, s, handlers)
    /\ exc' = Set(exc, s, kind)

Done(s) ==
    /\ cont' = Set(cont, s, Tail(cont[s]))
    /\ UNCHANGED exc

Sent(s, c, r) == wire' = Set(wire, s, Append(wire[s], [c |-> c, r |-> r]))

\* A command failed or a select was refused: the call counts stop.
Upset(s) ==
    /\ upset' = Set(upset, s, TRUE)
    /\ net' = Set(net, s, 0)
    /\ noops' = Set(noops, s, 0)
    /\ traffic' = Set(traffic, s, NoTraffic)

\* A call of lock() (d = 1) or unlock() (d = -1), made at depth n; des = 1
\* when it has sent board_deselect.
Counted(s, d, n, des) ==
    IF upset[s] THEN UNCHANGED calls
    ELSE /\ net' = Set(net, s, net[s] + d)
         /\ noops' = Set(noops, s, IF d < 0 /\ n = 0 THEN noops[s] + 1 ELSE noops[s])
         /\ traffic' = Set(traffic, s,
                IF d > 0 /\ n = 0 THEN [sel |-> 0, des |-> 0, peak |-> 1]
                ELSE [sel |-> traffic[s].sel,
                      des |-> traffic[s].des + des,
                      peak |-> IF d > 0 /\ n + 1 > traffic[s].peak THEN n + 1
                               ELSE traffic[s].peak])

\* A board_select request was granted.
Selected(s) ==
    /\ traffic' = Set(traffic, s,
           IF upset[s] THEN traffic[s]
           ELSE [traffic[s] EXCEPT !.sel = traffic[s].sel + 1])
    /\ UNCHANGED <<net, noops>>

\* lock(), up to the retry loop.
DoLock(s) ==
    /\ cont[s] # <<>> /\ Top(s).i \in {"enter", "lock"}
    /\ nested_locks' = Set(nested_locks, s, nested_locks[s] + 1)
    /\ Counted(s, 1, nested_locks[s], 0)
    /\ IF Reentrant(nested_locks[s] + 1)
       THEN /\ Done(s)
            /\ UNCHANGED attempts
       ELSE /\ attempts' = Set(attempts, s, 0)
            /\ cont' = Set(cont, s, <<Ins("select", Top(s).i)>> \o Tail(cont[s]))
            /\ UNCHANGED exc
    /\ UNCHANGED <<unix, lock_attempts, new_socket, deferred_transfer, buffer, phase,
                   conn, broker, op, depth0, wire, ret, issued, consumed,
                   upset, proper>>

\* lock(): one evaluation of the loop condition and, if it holds, one
\* board_select round trip.  An exception leaving lock() called by __enter__
\* skips the with-block and its __exit__.
DoSelect(s) ==
    /\ At(s, "select")
    /\ LET rest == Tail(cont[s])
           handlers == IF Top(s).a = "enter" THEN Handlers(AfterWith(rest))
                       ELSE Handlers(rest)
       IN  IF ~LoopCond(lock_attempts[s], attempts[s])
           THEN /\ Raise(s, "CommandError_inuse", handlers)
                /\ UNCHANGED <<attempts, holder, wire, upset, calls>>
           ELSE \E r \in SelectReplies(s) :
                /\ Sent(s, "board_select", r)
                /\ CASE r = "true" ->
                          /\ holder' = s
                          /\ Done(s)
                          /\ Selected(s)
                          /\ UNCHANGED <<attempts, upset>>
                     [] r = "false" ->
                          /\ attempts[s] < MaxBusy
                          /\ attempts' = Set(attempts, s, attempts[s] + 1)
                          /\ Upset(s)
                          /\ UNCHANGED <<cont, exc, holder>>
                     [] OTHER ->
                          /\ Raise(s, SelectExcept(r), handlers)
                          /\ Upset(s)
                          /\ UNCHANGED <<attempts, holder>>
    /\ UNCHANGED <<unix, fields, phase, conn, known, queue, op, depth0, ret, issued,
                   consumed, proper>>

\* unlock(), called directly or by __exit__.
DoUnlock(s) ==
    /\ cont[s] # <<>> /\ Top(s).i \in {"exit", "unlock"}
    /\ IF NeedsDeselect(nested_locks[s])
       THEN \E r \in {"ok", "error"} :
            /\ Sent(s, "board_deselect", r)
            /\ IF r = "ok"
               THEN /\ holder' = IF holder = s THEN "free" ELSE holder
                    /\ nested_locks' = Set(nested_locks, s, AfterUnlock(nested_locks[s]))
                    /\ Done(s)
                    /\ Counted(s, -1, nested_locks[s], 1)
                    /\ UNCHANGED upset
               ELSE /\ Raise(s, "ServerError", Handlers(Tail(cont[s])))
                    /\ Upset(s)
                    /\ UNCHANGED <<holder, nested_locks>>
       ELSE /\ nested_locks' = Set(nested_locks, s, AfterUnlock(nested_locks[s]))
            /\ Done(s)
            /\ Counted(s, -1, nested_locks[s], 0)
            /\ UNCHANGED <<holder, wire, upset>>
    /\ UNCHANGED <<unix, lock_attempts, new_socket, deferred_transfer, buffer,
                   attempts, phase, conn, known, queue, op, depth0, ret,
                   issued, consumed, proper>>

WriteCmds == {"write_dp", "write_ap", "write_8", "write_16", "write_32", "write_block"}
ReadCmds == {"read_dp", "read_ap", "read_8", "read_16", "read_32", "read_block"}

\* _command(): one request and its reply.  The broker buffers a transfer it
\* accepts; a read request gets the next request number, which stands for
\* its result.
DoCommand(s) ==
    /\ At(s, "cmd")
    /\ \E r \in {"ok", "error"} :
       /\ Sent(s, Top(s).a, r)
       /\ IF r = "ok"
          THEN /\ Done(s)
               /\ queue' = Set(queue, s,
                      IF Top(s).a \in WriteCmds THEN Append(queue[s], 0)
                      ELSE IF Top(s).a \in ReadCmds THEN Append(queue[s], issued[s] + 1)
                      ELSE queue[s])
               /\ issued' = Set(issued, s,
                      IF Top(s).a \in ReadCmds THEN issued[s] + 1 ELSE issued[s])
               /\ UNCHANGED <<upset, calls>>
          ELSE /\ Raise(s, "ServerError", Handlers(Tail(cont[s])))
               /\ Upset(s)
               /\ UNCHANGED <<queue, issued>>
    /\ UNCHANGED <<unix, fields, attempts, phase, conn, holder, known, op, depth0, ret,
                   consumed, proper>>

\* _write()
DoWrite(s) ==
    /\ At(s, "write")
    /\ cont' = Set(cont, s,
           (IF WriteFlushes(deferred_transfer[s]) THEN FlushProg ELSE <<>>)
           \o Tail(cont[s]))
    /\ UNCHANGED <<unix, fields, attempts, exc, phase, conn, broker, history>>

\* _read(), up to the pop
DoRead(s) ==
    /\ At(s, "read")
    /\ cont' = Set(cont, s,
           (IF ReadFlushes(buffer[s]) THEN FlushProg ELSE <<>>)
           \o <<Ins("pop", "")>> \o Tail(cont[s]))
    /\ UNCHANGED <<unix, fields, attempts, exc, phase, conn, broker, history>>

\* _read(): "return self._buffer.pop(0)"
DoPop(s) ==
    /\ At(s, "pop")
    /\ IF buffer[s] = <<>>
       THEN /\ Raise(s, "IndexError", Handlers(Tail(cont[s])))
            /\ UNCHANGED <<buffer, ret, consumed>>
       ELSE /\ ret' = Set(ret, s, PopValue(buffer[s]))
            /\ buffer' = Set(buffer, s, PopRest(buffer[s]))
            /\ consumed' = Set(consumed, s, consumed[s] + 1)
            /\ Done(s)
    /\ UNCHANGED <<unix, nested_locks, lock_attempts, new_socket, deferred_transfer,
                   attempts, phase, conn, broker, op, depth0, wire, issued, upset, calls, proper>>

\* flush(): the flush command and "self._buffer.extend(data['reads'])".  The
\* broker executes what it had buffered.
DoFlush(s) ==
    /\ At(s, "flushcmd")
    /\ \E r \in {"ok", "error"} :
       /\ Sent(s, "flush", r)
       /\ IF r = "ok"
          THEN /\ buffer' = Set(buffer, s, Extend(buffer[s], Reads(queue[s])))
               /\ queue' = Set(queue, s, <<>>)
               /\ Done(s)
               /\ UNCHANGED <<upset, calls>>
          ELSE /\ Raise(s, "ServerError", Handlers(Tail(cont[s])))
               /\ Upset(s)
               /\ UNCHANGED <<buffer, queue>>
    /\ UNCHANGED <<unix, nested_locks, lock_attempts, new_socket, deferred_transfer,
                   attempts, phase, conn, holder, known, op, depth0, ret, issued,
                   consumed, proper>>

\* setDeferredTransfer(): the test that calls flush()
DoToggle(s) ==
    /\ At(s, "toggle")
    /\ cont' = Set(cont, s,
           (IF ToggleFlushes(deferred_transfer[s], Top(s).a = "True")
            THEN FlushProg ELSE <<>>)
           \o <<Ins("assign", Top(s).a)>> \o Tail(cont[s]))
    /\ UNCHANGED <<unix, fields, attempts, exc, phase, conn, broker, history>>

\* setDeferredTransfer(): "self.deferred_transfer = enable"
DoAssign(s) ==
    /\ At(s, "assign")
    /\ deferred_transfer' = Set(deferred_transfer, s, Top(s).a = "True")
    /\ Done(s)
    /\ UNCHANGED <<unix, nested_locks, lock_attempts, new_socket, buffer, attempts,
                   phase, conn, broker, history>>

\* init(): the session replaces its client by a connection of its own
\* (DAPLinkClient(...), then its init()), which may fail to connect.
DoNewClient(s) ==
    /\ At(s, "newclient")
    /\ conn' = Set(conn, s, "owned")
    /\ \/ Done(s) /\ UNCHANGED <<upset, calls>>
       \/ Raise(s, "socket.error", Handlers(Tail(cont[s]))) /\ Upset(s)
    /\ UNCHANGED <<unix, fields, attempts, phase, broker, op, depth0, wire, ret,
                   issued, consumed, proper>>

\* uninit(): "if self._new_socket: self._client.uninit()"
DoCloseClient(s) ==
    /\ At(s, "closeclient")
    /\ conn' = Set(conn, s, IF new_socket[s] THEN "closed" ELSE conn[s])
    /\ Done(s)
    /\ UNCHANGED <<unix, fields, attempts, phase, broker, history>>

\* The method returns, or raises exc, to its caller; its locals are gone.
DoReturn(s) ==
    /\ At(s, "return")
    /\ cont' = Set(cont, s, <<>>)
    /\ exc' = Set(exc, s, "none")
    /\ attempts' = Set(attempts, s, 0)
    /\ op' = Set(op, s, NoOp)
    /\ depth0' = Set(depth0, s, 0)
    /\ wire' = Set(wire, s, <<>>)
    /\ ret' = Set(ret, s, 0)
    /\ UNCHANGED <<unix, fields, phase, conn, broker, issued, consumed, upset, calls, proper>>

\* ----------------------------------------------------------- the methods
\* A call of a method: its body becomes the instructions to run.
Begin(s, name, mode, prog) ==
    /\ Idle(s)
    /\ cont' = Set(cont, s, prog \o <<Ins("return", "")>>)
    /\ exc' = Set(exc, s, "none")
    /\ op' = Set(op, s, [name |-> name, mode |-> mode, arg |-> Head(prog).a,
                         deferred |-> deferred_transfer[s], clean |-> ~upset[s],
                         buffered |-> Len(queue[s]) - Len(Reads(queue[s])),
                         owed |-> issued[s] - consumed[s]])
    /\ depth0' = Set(depth0, s, nested_locks[s])
    /\ wire' = Set(wire, s, <<>>)
    /\ ret' = Set(ret, s, 0)

\* A call made on an initialised session.
Call(s, name, prog) ==
    /\ phase[s] = "inited"
    /\ Begin(s, name, 0, prog)
    /\ UNCHANGED <<unix, fields, attempts, phase, conn, broker, issued, consumed, upset, calls, proper>>

WriteCall(s, name, c) ==
    /\ Len(queue[s]) < MaxQueue
    /\ Call(s, name, With(<<Cmd(c), Ins("write", "")>>))

\* read*(addr, mode): the request unless READ_END, the result unless
\* READ_START.  The caller keeps to the modes' rule when it consumes with
\* READ_NOW only with no read outstanding and with READ_END only with one.
ReadCall(s, name, c, mode) ==
    /\ phase[s] = "inited"
    /\ Requests(mode) => issued[s] < MaxReads /\ Len(queue[s]) < MaxQueue
    /\ Begin(s, name, mode,
             With((IF Requests(mode) THEN <<Cmd(c)>> ELSE <<>>)
                  \o (IF Consumes(mode) THEN <<Ins("read", "")>> ELSE <<>>)))
    /\ proper' = Set(proper, s,
           /\ proper[s]
           /\ mode = READ_NOW => issued[s] = consumed[s]
           /\ mode = READ_END => issued[s] > consumed[s])
    /\ UNCHANGED <<unix, fields, attempts, phase, conn, broker, issued, consumed,
                   upset, calls>>

init(s) ==
    /\ phase[s] = "new"
    /\ \E budget \in 0..MaxAttempts, fresh \in BOOLEAN :
       /\ lock_attempts' = Set(lock_attempts, s, budget)
       /\ new_socket' = Set(new_socket, s, fresh)
       /\ Begin(s, "init", 0,
                (IF fresh THEN <<Ins("newclient", ""), Cmd("board_enumerate")>>
                 ELSE <<>>)
                \o <<Ins("lock", ""), Cmd("dap_init")>>)
    /\ phase' = Set(phase, s, "inited")
    /\ UNCHANGED <<unix, nested_locks, deferred_transfer, buffer, attempts, conn,
                   broker, issued, consumed, upset, calls, proper>>

uninit(s) ==
    /\ phase[s] = "inited"
    /\ Begin(s, "uninit", 0,
             With(<<Cmd("dap_uninit")>>) \o <<Ins("closeclient", "")>>)
    /\ phase' = Set(phase, s, "uninited")
    /\ UNCHANGED <<unix, fields, attempts, conn, broker, issued, consumed, upset, calls, proper>>

lock(s) ==
    /\ nested_locks[s] < MaxDepth
    /\ Call(s, "lock", <<Ins("lock", "")>>)

unlock(s) ==
    /\ nested_locks[s] = 0 => noops[s] < MaxUnder
    /\ Call(s, "unlock", <<Ins("unlock", "")>>)

info(s) == Call(s, "info", With(<<Cmd("dap_info")>>))

reset(s) == Call(s, "reset", With(<<Cmd("reset")>>))

assertReset(s) ==
    \E asserted \in BOOLEAN :
        Call(s, "assertReset",
             With(<<Cmd(IF asserted THEN "reset_assert" ELSE "reset_deassert")>>))

setClock(s) == Call(s, "setClock", With(<<Cmd("dap_frequency")>>))

setPacketCount(s) == Call(s, "setPacketCount", With(<<Cmd("dap_packet_count")>>))

setDeferredTransfer(s) ==
    \E enable \in {"True", "False"} :
        Call(s, "setDeferredTransfer", <<Ins("toggle", enable)>>)

writeDP(s) == WriteCall(s, "writeDP", "write_dp")

readDP(s) ==
    \E mode \in {READ_START, READ_NOW, READ_END} : ReadCall(s, "readDP", "read_dp", mode)

writeAP(s) == WriteCall(s, "writeAP", "write_ap")

readAP(s) ==
    \E mode \in {READ_START, READ_NOW, READ_END} : ReadCall(s, "readAP", "read_ap", mode)

writeMem(s) ==
    \E size \in {"8", "16", "32"} : WriteCall(s, "writeMem", "write_" \o size)

readMem(s) ==
    \E size \in {"8", "16", "32"}, mode \in {READ_START, READ_NOW, READ_END} :
        ReadCall(s, "readMem", "read_" \o size, mode)

writeBlock32(s) == WriteCall(s, "writeBlock32", "write_block")

readBlock32(s) == ReadCall(s, "readBlock32", "read_block", READ_NOW)

flush(s) == Call(s, "flush", FlushProg)

\* ------------------------------------------------------- the environment
\* Another process takes the device, or gives it back.
OtherSelect ==
    /\ holder = "free"
    /\ holder' = "other"
    /\ UNCHANGED <<unix, fields, control, known, queue, history>>

OtherDeselect ==
    /\ holder = "other"
    /\ holder' = "free"
    /\ UNCHANGED <<unix, fields, control, known, queue, history>>

\* The device is unplugged: the broker no longer knows its id.
DeviceRemoved ==
    /\ known
    /\ known' = FALSE
    /\ UNCHANGED <<unix, fields, control, holder, queue, history>>

\* ------------------------------------------------------------ UnixServer
\* What self.address holds: nothing, a socket file the process may write
\* (left by an earlier server, or bound by this one), a socket file it may
\* not write, or a file that is not a socket.
NodeKinds == {"absent", "socket", "socket_ro", "file"}

\* An open() that removes whatever it finds at the address.
Stale_Any(kind) == kind # "absent"

\* open(): "stat.S_ISSOCK(os.stat(self.address).st_mode) and
\* os.access(self.address, os.W_OK)"; os.stat raises OSError, which is
\* passed over, when nothing is there.
Stale(kind) == kind = "socket"

\* os.unlink(self.address), in a directory the process may write
\* (addrisvalid): it removes a file of any kind.
Unlink(kind) == "absent"

\* A select() that waits on the listening socket only.
SelectReturns_SocketOnly(sock, pend, pipe) == sock = "listening" /\ pend > 0

\* accept(): "select([self._socket, self._shutdown_pipe[1]], [], [])"
\* returns once a connection is waiting or the pair holds unread bytes.
SelectReturns(sock, pend, pipe) ==
    (sock = "listening" /\ pend > 0) \/ pipe.sent > 0

\* An accept() that never gives up.
AcceptRefuses_Never(alive) == FALSE

\* accept(): "if not self._isalive: return None".
AcceptRefuses(alive) == ~alive

Accepting == acc.pc # "idle"

\* open() or close() acts on the sockets a running accept() waits on.
Tear == acc' = IF Accepting THEN [acc EXCEPT !.torn = TRUE] ELSE acc

\* open(): a new interrupt pair, the stale socket removed, a new socket
\* bound to the address and listening.  bind() raises when the address is
\* still taken, leaving the new socket unbound and _isalive as it was.
UnixServer_open ==
    /\ stopper = "idle"
    /\ LET found == IF Stale(node) THEN Unlink(node) ELSE node
           bound == found = "absent"
       IN  /\ shutdown_pipe' = [state |-> "open", sent |-> 0]
           /\ node' = IF bound THEN "socket" ELSE found
           /\ srv_socket' = IF bound THEN "listening" ELSE "unbound"
           /\ srv_isalive' = (bound \/ srv_isalive)
           /\ did' = [call |-> "open", before |-> node,
                      result |-> IF bound THEN "ok" ELSE "socket.error"]
    /\ pending' = 0
    /\ stopped' = IF stopped = "no" THEN "no" ELSE "reopened"
    /\ Tear
    /\ UNCHANGED <<session, stopper, connection>>

\* A client connects to the listening socket.
ClientConnects ==
    /\ srv_socket = "listening" /\ pending < MaxPending
    /\ pending' = pending + 1
    /\ UNCHANGED <<session, srv_isalive, srv_socket, shutdown_pipe, node,
                   threads, did, stopped, connection>>

Returns(r) == [acc EXCEPT !.pc = "idle", !.ret = r]

\* accept() is called: it enters select(), which raises at once on a
\* closed socket; before any open() the attributes do not exist.
UnixServer_accept ==
    /\ ~Accepting
    /\ LET call == [pc |-> "select", ret |-> "", interrupted |-> FALSE,
                    after |-> stopped, torn |-> FALSE]
       IN  acc' = IF srv_socket = "unset" THEN [call EXCEPT !.pc = "idle", !.ret = "AttributeError"]
                  ELSE IF srv_socket = "closed" THEN [call EXCEPT !.pc = "idle", !.ret = "socket.error"]
                  ELSE call
    /\ UNCHANGED <<session, listener, stopper, did, stopped, connection>>

\* accept(): select() returns.
AcceptSelect ==
    /\ acc.pc = "select" /\ ~acc.torn
    /\ SelectReturns(srv_socket, pending, shutdown_pipe)
    /\ acc' = [acc EXCEPT !.pc = "check"]
    /\ UNCHANGED <<session, listener, stopper, did, stopped, connection>>

\* accept(): the test of _isalive.
AcceptCheck ==
    /\ acc.pc = "check" /\ ~acc.torn
    /\ acc' = IF AcceptRefuses(srv_isalive) THEN Returns("None")
              ELSE [acc EXCEPT !.pc = "accept"]
    /\ UNCHANGED <<session, listener, stopper, did, stopped, connection>>

\* accept(): "conn, _ = self._socket.accept()", which waits for a connection.
AcceptTake ==
    /\ acc.pc = "accept" /\ ~acc.torn
    /\ srv_socket = "listening" /\ pending > 0
    /\ pending' = pending - 1
    /\ acc' = Returns("connection")
    /\ UNCHANGED <<session, srv_isalive, srv_socket, shutdown_pipe, node,
                   stopper, did, stopped, connection>>

\* accept() on sockets that another thread closed or replaced meanwhile:
\* it may return either result, raise, or stay blocked.
AcceptTorn ==
    /\ Accepting /\ acc.torn
    /\ \E r \in {"None", "connection", "socket.error"} : acc' = Returns(r)
    /\ UNCHANGED <<session, listener, stopper, did, stopped, connection>>

\* shutdown(): "self._isalive = False".
UnixServer_shutdown ==
    /\ stopper = "idle"
    /\ shutdown_pipe.state = "open" => shutdown_pipe.sent < MaxSignals
    /\ srv_isalive' = FALSE
    /\ stopper' = "send"
    /\ acc' = IF acc.pc = "select" THEN [acc EXCEPT !.interrupted = TRUE] ELSE acc
    /\ did' = [call |-> "shutdown", before |-> node, result |-> ""]
    /\ UNCHANGED <<session, srv_socket, shutdown_pipe, node, pending, stopped,
                   connection>>

\* shutdown(): "self._shutdown_pipe[0].sendall('shutdown')", and the return.
DoSendall ==
    /\ stopper = "send"
    /\ stopper' = "idle"
    /\ IF shutdown_pipe.state = "open"
       THEN /\ shutdown_pipe' = [shutdown_pipe EXCEPT !.sent = @ + 1]
            /\ stopped' = "yes"
            /\ did' = [did EXCEPT !.result = "ok"]
       ELSE /\ did' = [did EXCEPT !.result =
                          IF shutdown_pipe.state = "unset" THEN "AttributeError"
                          ELSE "socket.error"]
            /\ UNCHANGED <<shutdown_pipe, stopped>>
    /\ UNCHANGED <<session, srv_isalive, srv_socket, node, pending, acc,
                   connection>>

\* close(): the three sockets are closed, then "os.unlink(self.address)"
\* with OSError passed over.  Before any open() the attributes do not exist.
UnixServer_close ==
    /\ stopper = "idle"
    /\ IF srv_socket = "unset"
       THEN /\ did' = [call |-> "close", before |-> node, result |-> "AttributeError"]
            /\ UNCHANGED <<listener, acc, stopped>>
       ELSE /\ srv_socket' = "closed"
            /\ shutdown_pipe' = [state |-> "closed", sent |-> 0]
            /\ node' = Unlink(node)
            /\ pending' = 0
            /\ stopped' = "no"
            /\ did' = [call |-> "close", before |-> node, result |-> "ok"]
            /\ Tear
            /\ UNCHANGED srv_isalive
    /\ UNCHANGED <<session, stopper, connection>>

\* -------------------------------------------------------- UnixConnection
Called(c, r) == con_did' = [call |-> c, result |-> r, late |-> eof]

\* send(): "self._socket.sendall(data)".  The socket raises when it was
\* closed or shut down here, or when the peer closed its end; a peer that
\* only stopped sending still receives.
UnixConnection_send ==
    /\ Called("send", IF con_socket # "open" \/ peer = "closed" THEN "socket.error"
                      ELSE "ok")
    /\ UNCHANGED <<session, listener, threads, did, stopped, con_isalive,
                   con_socket, peer, inbox, eof>>

\* recv(): data when there is some; the empty string, and _isalive set to
\* False, at the end of the stream; otherwise it waits.
UnixConnection_recv ==
    /\ CASE con_socket = "closed" ->
              /\ Called("recv", "socket.error")
              /\ UNCHANGED <<con_isalive, inbox, eof>>
         [] con_socket = "open" /\ inbox > 0 ->
              /\ Called("recv", "data")
              /\ inbox' = inbox - 1
              /\ UNCHANGED <<con_isalive, eof>>
         [] OTHER ->
              /\ con_socket = "shut" \/ peer # "open"
              /\ Called("recv", "empty")
              /\ con_isalive' = FALSE
              /\ eof' = TRUE
              /\ UNCHANGED inbox
    /\ UNCHANGED <<session, listener, threads, did, stopped, con_socket, peer>>

\* shutdown(): "self._isalive = False", then SHUT_RDWR with socket.error
\* passed over.
UnixConnection_shutdown ==
    /\ con_isalive' = FALSE
    /\ con_socket' = IF con_socket = "open" THEN "shut" ELSE con_socket
    /\ UNCHANGED <<session, listener, threads, did, stopped, peer, inbox,
                   con_did, eof>>

\* close()
UnixConnection_close ==
    /\ con_socket' = "closed"
    /\ UNCHANGED <<session, listener, threads, did, stopped, con_isalive,
                   peer, inbox, con_did, eof>>

\* The peer sends a message, stops sending, or closes its end.
PeerSends ==
    /\ peer = "open" /\ inbox < MaxData
    /\ inbox' = inbox + 1
    /\ UNCHANGED <<session, listener, threads, did, stopped, con_isalive,
                   con_socket, peer, con_did, eof>>

PeerCloses ==
    /\ peer = "open"
    /\ peer' \in {"halfclosed", "closed"}
    /\ UNCHANGED <<session, listener, threads, did, stopped, con_isalive,
                   con_socket, inbox, con_did, eof>>

\* ------------------------------------------------------ the specifications
\* UnixServer.__init__() and UnixConnection.__init__(), whatever the
\* address holds.
UnixNew ==
    /\ srv_isalive = FALSE
    /\ srv_socket = "unset"
    /\ shutdown_pipe = [state |-> "unset", sent |-> 0]
    /\ node \in NodeKinds
    /\ pending = 0
    /\ acc = [pc |-> "idle", ret |-> "", interrupted |-> FALSE, after |-> "no",
              torn |-> FALSE]
    /\ stopper = "idle"
    /\ did = [call |-> "", before |-> node, result |-> ""]
    /\ stopped = "no"
    /\ con_isalive = TRUE
    /\ con_socket = "open"
    /\ peer = "open"
    /\ inbox = 0
    /\ con_did = [call |-> "", result |-> "", late |-> FALSE]
    /\ eof = FALSE

\* __init__(): the session as constructed.
Constructed ==
    /\ nested_locks = [s \in Sessions |-> 0]
    /\ lock_attempts = [s \in Sessions |-> 0]
    /\ new_socket = [s \in Sessions |-> FALSE]
    /\ deferred_transfer = [s \in Sessions |-> FALSE]
    /\ buffer = [s \in Sessions |-> <<>>]
    /\ attempts = [s \in Sessions |-> 0]
    /\ cont = [s \in Sessions |-> <<>>]
    /\ exc = [s \in Sessions |-> "none"]
    /\ phase = [s \in Sessions |-> "new"]
    /\ conn = [s \in Sessions |-> "shared"]
    /\ holder = "free"
    /\ known = TRUE
    /\ queue = [s \in Sessions |-> <<>>]
    /\ op = [s \in Sessions |-> NoOp]
    /\ depth0 = [s \in Sessions |-> 0]
    /\ wire = [s \in Sessions |-> <<>>]
    /\ ret = [s \in Sessions |-> 0]
    /\ issued = [s \in Sessions |-> 0]
    /\ consumed = [s \in Sessions |-> 0]
    /\ net = [s \in Sessions |-> 0]
    /\ noops = [s \in Sessions |-> 0]
    /\ traffic = [s \in Sessions |-> NoTraffic]
    /\ upset = [s \in Sessions |-> FALSE]
    /\ proper = [s \in Sessions |-> TRUE]

Init == Constructed /\ UnixNew /\ node = "absent"

\* One session, its locking and its plain device commands, with another
\* process competing for the device and the device liable to be unplugged.
Next ==
    \/ init(Main) \/ uninit(Main) \/ lock(Main) \/ unlock(Main)
    \/ info(Main) \/ reset(Main) \/ assertReset(Main)
    \/ setClock(Main) \/ setPacketCount(Main)
    \/ DoLock(Main) \/ DoSelect(Main) \/ DoUnlock(Main) \/ DoCommand(Main)
    \/ DoNewClient(Main) \/ DoCloseClient(Main) \/ DoReturn(Main)
    \/ OtherSelect \/ OtherDeselect \/ DeviceRemoved

Spec == Init /\ [][Next]_vars

\* The broker grants a board_select.
Granted(s) == DoSelect(s) /\ holder' = s

\* The same, with the scheduling the retry loop has: the loop never blocks,
\* so it keeps taking steps; the other process gives the device back; and
\* the broker does grant a select that it could grant again and again.
SpecFair ==
    /\ Init /\ [][Next]_vars
    /\ WF_vars(DoSelect(Main))
    /\ WF_vars(OtherDeselect)
    /\ SF_vars(Granted(Main))

\* One session and its transfers: writes, pipelined reads, flushes and the
\* deferred mode, locked or not.
NextXfer ==
    \/ lock(Main) \/ unlock(Main) \/ setDeferredTransfer(Main)
    \/ writeDP(Main) \/ readDP(Main) \/ writeAP(Main) \/ readAP(Main)
    \/ writeMem(Main) \/ readMem(Main) \/ writeBlock32(Main) \/ readBlock32(Main)
    \/ flush(Main)
    \/ DoLock(Main) \/ DoSelect(Main) \/ DoUnlock(Main) \/ DoCommand(Main)
    \/ DoWrite(Main) \/ DoRead(Main) \/ DoPop(Main) \/ DoFlush(Main)
    \/ DoToggle(Main) \/ DoAssign(Main) \/ DoReturn(Main)

\* The session once init(), called with its default arguments, has returned:
\* it owns its connection and holds the device.
InitXfer ==
    /\ nested_locks = [s \in Sessions |-> IF s = Main THEN 1 ELSE 0]
    /\ lock_attempts = [s \in Sessions |-> IF s = Main THEN DefaultAttempts ELSE 0]
    /\ new_socket = [s \in Sessions |-> s = Main]
    /\ deferred_transfer = [s \in Sessions |-> FALSE]
    /\ buffer = [s \in Sessions |-> <<>>]
    /\ attempts = [s \in Sessions |-> 0]
    /\ cont = [s \in Sessions |-> <<>>]
    /\ exc = [s \in Sessions |-> "none"]
    /\ phase = [s \in Sessions |-> IF s = Main THEN "inited" ELSE "new"]
    /\ conn = [s \in Sessions |-> IF s = Main THEN "owned" ELSE "shared"]
    /\ holder = Main
    /\ known = TRUE
    /\ queue = [s \in Sessions |-> <<>>]
    /\ op = [s \in Sessions |-> NoOp]
    /\ depth0 = [s \in Sessions |-> 0]
    /\ wire = [s \in Sessions |-> <<>>]
    /\ ret = [s \in Sessions |-> 0]
    /\ issued = [s \in Sessions |-> 0]
    /\ consumed = [s \in Sessions |-> 0]
    /\ net = [s \in Sessions |-> IF s = Main THEN 1 ELSE 0]
    /\ noops = [s \in Sessions |-> 0]
    /\ traffic = [s \in Sessions |->
                     IF s = Main THEN [sel |-> 1, des |-> 0, peak |-> 1] ELSE NoTraffic]
    /\ upset = [s \in Sessions |-> FALSE]
    /\ proper = [s \in Sessions |-> TRUE]
    /\ UnixNew /\ node = "absent"

SpecXfer == InitXfer /\ [][NextXfer]_vars

\* Two sessions, in two processes, on the same device.
NextTwo ==
    \E s \in Sessions :
        \/ init(s) \/ lock(s) \/ unlock(s) \/ reset(s)
        \/ DoLock(s) \/ DoSelect(s) \/ DoUnlock(s) \/ DoCommand(s)
        \/ DoNewClient(s) \/ DoReturn(s)

SpecTwo == Init /\ [][NextTwo]_vars

\* One session from init() to uninit(), its caller never calling lock() or
\* unlock(), with another process competing for the device.
NextLife ==
    \/ init(Main) \/ uninit(Main)
    \/ info(Main) \/ reset(Main) \/ assertReset(Main)
    \/ setClock(Main) \/ setPacketCount(Main)
    \/ DoLock(Main) \/ DoSelect(Main) \/ DoUnlock(Main) \/ DoCommand(Main)
    \/ DoNewClient(Main) \/ DoCloseClient(Main) \/ DoReturn(Main)
    \/ OtherSelect \/ OtherDeselect

SpecLife == Init /\ [][NextLife]_vars

InitUnix == Constructed /\ UnixNew

\* A server with the thread that accepts, the thread that opens, shuts
\* down and closes, and the clients that connect.
NextServer ==
    \/ UnixServer_open \/ UnixServer_shutdown \/ DoSendall \/ UnixServer_close
    \/ UnixServer_accept \/ AcceptSelect \/ AcceptCheck \/ AcceptTake
    \/ AcceptTorn \/ ClientConnects

SpecServer == InitUnix /\ [][NextServer]_vars

\* The same, with threads that keep running: a shutdown() that has set the
\* flag goes on to write the sentinel, and the accepting thread takes the
\* steps that do not wait.
SpecServerFair ==
    /\ InitUnix /\ [][NextServer]_vars
    /\ WF_vars(DoSendall)
    /\ WF_vars(AcceptSelect)
    /\ WF_vars(AcceptCheck)

\* A connection and its peer.
NextConnection ==
    \/ UnixConnection_send \/ UnixConnection_recv \/ UnixConnection_shutdown
    \/ UnixConnection_close \/ PeerSends \/ PeerCloses

SpecConnection == InitUnix /\ [][NextConnection]_vars

\* ------------------------------------------------------------- the claims
\* The method has run to its end and is about to return, or to raise exc.
Exits(s) == At(s, "return")
Normal(s) == exc[s] = "none"

\* The session is inside a lock() call.
InLock(s) == At(s, "select")

\* How many requests of the log w satisfy Test.
Count(w, Test(_)) == Len(SelectSeq(w, Test))

IsSelect(e) == e.c = "board_select"
IsDeselect(e) == e.c = "board_deselect"
IsFlush(e) == e.c = "flush"
IsRefusal(e) == e.r = "false"
IsFailure(e) == e.r \notin {"ok", "true"}

LockScoped ==
    {"info", "reset", "assertReset", "setClock", "setPacketCount", "writeDP",
     "writeAP", "writeMem", "writeBlock32", "readDP", "readAP", "readMem",
     "readBlock32", "flush"}

\* C1: a lock-scoped method leaves nested_locks as it found it, on every
\* exit path, the failure of the lock acquisition included.
C1_LockScopedBalanced ==
    \A s \in Sessions :
        Exits(s) /\ op[s].name \in LockScoped => nested_locks[s] = depth0[s]

\* C2: two sessions on one device are never both locked while neither is
\* inside a lock() call.
C2_Exclusive ==
    ~(\A s \in Sessions : ~InLock(s) /\ nested_locks[s] > 0)

Max0(n) == IF n > 0 THEN n ELSE 0

C4_OneSelectOneDeselect ==
    \A s \in Sessions :
        ~upset[s] /\ traffic[s].peak > 0 =>
            /\ traffic[s].sel = (IF InLock(s) THEN 0 ELSE 1)
            /\ traffic[s].des = (IF nested_locks[s] = 0 THEN 1 ELSE 0)

\* A cycle that went three deep has ended with one select and one deselect.
C4_Witness ==
    /\ ~upset[Main] /\ nested_locks[Main] = 0
    /\ traffic[Main] = [sel |-> 1, des |-> 1, peak |-> MaxDepth + 1]

\* A lock() call made at depth 0 is about to return or raise.
LockExits(s) == Exits(s) /\ op[s].name = "lock" /\ depth0[s] = 0

\* C5: lock() at depth 0 on a device unknown to the broker raises the
\* CommandError that names the device, after a single board_select.
C5_UnknownIsLockFailure ==
    \A s \in Sessions :
        LockExits(s) /\ wire[s] # <<>> /\ wire[s][1].r = "KeyError" =>
            exc[s] = "CommandError_select" /\ Len(wire[s]) = 1

\* C6: with a budget B >= 1 and a broker that only refuses or grants,
\* lock() at depth 0 returns after N refusals and one grant, N + 1 <= B, or
\* raises the "in use" CommandError after exactly B requests, all refused.
C6_RetryBudget ==
    \A s \in Sessions :
        LockExits(s) /\ lock_attempts[s] >= 1
        /\ (\A k \in 1..Len(wire[s]) : wire[s][k].r \in {"true", "false"}) =>
            LET N == Count(wire[s], IsRefusal)
                B == lock_attempts[s]
            IN  /\ Count(wire[s], IsSelect) = Len(wire[s])
                /\ IF Normal(s)
                   THEN /\ Len(wire[s]) = N + 1 /\ N + 1 <= B
                        /\ wire[s][N + 1].r = "true"
                        /\ nested_locks[s] = 1
                   ELSE /\ exc[s] = "CommandError_inuse"
                        /\ Len(wire[s]) = B /\ N = B

\* lock() succeeded at its last permitted attempt.
C6_Witness ==
    /\ LockExits(Main) /\ Normal(Main) /\ lock_attempts[Main] = MaxAttempts
    /\ Count(wire[Main], IsRefusal) = MaxAttempts - 1

\* C7: with lock_attempts 0 lock() never raises the "in use" CommandError,
\* however often it is refused, and a lock() that is retrying comes to an
\* end once the broker grants the select (or a request fails).
C7_Unbounded ==
    /\ [](\A s \in Sessions : lock_attempts[s] = 0 => exc[s] # "CommandError_inuse")
    /\ \A s \in Sessions :
          (InLock(s) /\ lock_attempts[s] = 0)
              ~> (~InLock(s) /\ exc[s] \in {"none", "NameError"})

\* lock() with no budget returned after being refused MaxBusy times.
C7_Witness ==
    /\ LockExits(Main) /\ Normal(Main) /\ lock_attempts[Main] = 0
    /\ Count(wire[Main], IsRefusal) = MaxBusy

WriteOps == {"writeDP", "writeAP", "writeMem", "writeBlock32"}
ReadOps == {"readDP", "readAP", "readMem", "readBlock32"}
IsWrite(e) == e.c \in WriteCmds

\* C8: a write method in immediate mode sends flush right after its write
\* command, once; in deferred mode it sends none; and a flush is sent only
\* by flush(), by a read that consumes, by a write in immediate mode and by
\* setDeferredTransfer().
C8_FlushPerWrite ==
    \A s \in Sessions :
        /\ op[s].name \in WriteOps =>
              IF deferred_transfer[s]
              THEN Count(wire[s], IsFlush) = 0
              ELSE /\ Count(wire[s], IsFlush) <= 1
                   /\ \A k \in 1..Len(wire[s]) :
                         IsWrite(wire[s][k]) /\ wire[s][k].r = "ok" =>
                            /\ Exits(s) => k < Len(wire[s])
                            /\ k < Len(wire[s]) => IsFlush(wire[s][k + 1])
        /\ Count(wire[s], IsFlush) > 0 =>
              \/ op[s].name \in {"flush", "setDeferredTransfer"}
              \/ op[s].name \in WriteOps /\ ~deferred_transfer[s]
              \/ op[s].name \in ReadOps /\ Consumes(op[s].mode)

\* A third write in a row was left buffered at the broker, with no flush.
C8_Witness ==
    /\ Exits(Main) /\ Normal(Main) /\ op[Main].name \in WriteOps
    /\ deferred_transfer[Main] /\ op[Main].buffered = MaxQueue - 1
    /\ Len(queue[Main]) = MaxQueue /\ Count(wire[Main], IsFlush) = 0

\* C9: while no command has failed and the caller keeps to the rule of the
\* read modes, the results not yet consumed are, in order and across the
\* local buffer and the broker, those of the requests not yet answered, and
\* the i-th read that consumes returns the result of the i-th request.
C9_FIFO ==
    \A s \in Sessions :
        ~upset[s] /\ proper[s] =>
            /\ buffer[s] \o Reads(queue[s])
                 = [k \in 1..(issued[s] - consumed[s]) |-> consumed[s] + k]
            /\ Exits(s) /\ op[s].name \in ReadOps /\ Consumes(op[s].mode) =>
                  Normal(s) /\ ret[s] = consumed[s]

\* The second of three pipelined results is returned, the third waiting.
C9_Witness ==
    /\ ~upset[Main] /\ proper[Main] /\ Exits(Main) /\ Normal(Main)
    /\ op[Main].mode = READ_END /\ op[Main].owed = MaxReads - 1
    /\ ret[Main] = MaxReads - 1 /\ buffer[Main] = <<MaxReads>>

\* C10: a READ_NOW read made with no read outstanding, whose commands all
\* succeed, returns the result of its own request and leaves nothing
\* buffered at the broker or in the session.
C10_ReadNowFlushes ==
    \A s \in Sessions :
        Exits(s) /\ op[s].mode = READ_NOW /\ op[s].owed = 0
        /\ Count(wire[s], IsFailure) = 0 =>
            /\ Normal(s)
            /\ ret[s] = issued[s]
            /\ queue[s] = <<>> /\ buffer[s] = <<>>

\* Two writes were buffered at the broker when the read was made.
C10_Witness ==
    /\ Exits(Main) /\ Normal(Main) /\ op[Main].mode = READ_NOW
    /\ op[Main].owed = 0 /\ op[Main].buffered = MaxQueue - 1
    /\ queue[Main] = <<>> /\ ret[Main] = issued[Main]

\* The flush command was sent and answered.
IsFlushed(e) == IsFlush(e) /\ e.r = "ok"

\* C11: setDeferredTransfer(False) called in deferred mode clears the flag
\* only after a flush was sent and answered, when nothing is left buffered
\* at the broker; it returns normally with the flag cleared, or raises
\* with the flag still set; any other setDeferredTransfer() call sends no
\* command, sets the flag to its argument and returns.
C11_ToggleFlushes ==
    \A s \in Sessions :
        op[s].name = "setDeferredTransfer" =>
            IF op[s].deferred /\ op[s].arg = "False"
            THEN /\ ~deferred_transfer[s] =>
                       Count(wire[s], IsFlushed) = 1 /\ queue[s] = <<>>
                 /\ Exits(s) => (Normal(s) <=> ~deferred_transfer[s])
            ELSE /\ wire[s] = <<>>
                 /\ Exits(s) =>
                       Normal(s) /\ deferred_transfer[s] = (op[s].arg = "True")

\* Deferred mode was left with a write and a read buffered at the broker.
C11_Witness ==
    /\ Exits(Main) /\ Normal(Main) /\ op[Main].name = "setDeferredTransfer"
    /\ op[Main].deferred /\ op[Main].arg = "False" /\ op[Main].buffered >= 1
    /\ ~deferred_transfer[Main] /\ queue[Main] = <<>> /\ buffer[Main] # <<>>

\* Of the requests sent, only dap_uninit failed, if any did.
OnlyUninitFailed(w) ==
    \A k \in 1..Len(w) : IsFailure(w[k]) => w[k].c = "dap_uninit"

\* C15: uninit(), called on a session that no failure has touched, leaves
\* nested_locks as it found it and the connection closed if init() was
\* given new_socket=True and untouched if not, whether dap_uninit succeeds
\* or fails.
C15_UninitReleases ==
    \A s \in Sessions :
        Exits(s) /\ op[s].name = "uninit" /\ op[s].clean
        /\ OnlyUninitFailed(wire[s]) =>
            /\ nested_locks[s] = depth0[s]
            /\ conn[s] = (IF new_socket[s] THEN "closed" ELSE "shared")

DeviceCmds ==
    {"dap_init", "dap_uninit", "dap_info", "dap_frequency", "dap_packet_count",
     "reset", "reset_assert", "reset_deassert", "flush"}
    \cup WriteCmds \cup ReadCmds

\* C16: the broker holds the device for the session whenever the last
\* request the session sent is a device command (only the session's own
\* board_deselect, a later request, ends its reservation).
C16_SelectedWhenCommanding ==
    \A s \in Sessions :
        wire[s] # <<>> /\ wire[s][Len(wire[s])].c \in DeviceCmds => holder = s

\* C17: with no lock() or unlock() call by the caller and no failure, when
\* uninit() returns the session is unlocked, it has sent board_deselect and
\* the broker no longer reserves the device for it.
C17_LifecycleBalanced ==
    \A s \in Sessions :
        Exits(s) /\ op[s].name = "uninit" /\ Normal(s) /\ op[s].clean =>
            /\ nested_locks[s] = 0
            /\ Count(wire[s], IsDeselect) = 1
            /\ holder # s

\* C18: whatever the order of the reads, writes and flushes, the results
\* buffered in the session and the requests buffered at the broker are as
\* many as the requests issued and not consumed; every result buffered or
\* returned is that of an issued request; a pop that finds nothing raises,
\* and only when no read is outstanding; and a READ_NOW read made with no
\* read outstanding returns the result of its own request.
C18_ReadAccounting ==
    \A s \in Sessions :
        /\ consumed[s] <= issued[s]
        /\ Len(buffer[s]) + Len(Reads(queue[s])) = issued[s] - consumed[s]
        /\ \A k \in 1..Len(buffer[s]) : buffer[s][k] \in 1..issued[s]
        /\ exc[s] = "IndexError" => issued[s] = consumed[s]
        /\ Exits(s) /\ Normal(s) /\ op[s].name \in ReadOps /\ Consumes(op[s].mode) =>
              /\ ret[s] \in 1..issued[s]
              /\ op[s].owed = 0 => op[s].mode = READ_NOW /\ ret[s] = issued[s]

\* Against the rule, a READ_NOW read was made with a read outstanding: it
\* returned the older result and left its own in the buffer.
C18_Witness ==
    /\ ~proper[Main] /\ Exits(Main) /\ Normal(Main) /\ op[Main].mode = READ_NOW
    /\ op[Main].owed >= 1 /\ ret[Main] < issued[Main] /\ buffer[Main] # <<>>

\* C12: an accept() call that was waiting in select when shutdown() began,
\* its sockets neither closed nor replaced meanwhile, returns None whatever
\* connections arrive and however the two threads interleave; it does
\* return; and the close() that follows raises nothing.
C12_ShutdownInterrupts ==
    /\ [](acc.interrupted /\ ~acc.torn /\ ~Accepting => acc.ret = "None")
    /\ [](acc.interrupted /\ did.call = "close" => did.result = "ok")
    /\ (acc.interrupted /\ Accepting) ~> (~Accepting \/ acc.torn)

\* The interrupted accept() returned None with the backlog full, before
\* shutdown() had written its sentinel.
C12_Witness ==
    /\ acc.interrupted /\ ~acc.torn /\ ~Accepting /\ acc.ret = "None"
    /\ pending = MaxPending /\ stopper = "send"

\* C13: right after open(), a writable socket file found at the address
\* has been replaced by the socket of a server that is bound, listening and
\* alive, open() having raised nothing; a file that is not a socket, or a
\* socket file that is not writable, is still there, open() having failed
\* or not.
C13_OpenRemovesOnlyStale ==
    did.call = "open" =>
        /\ did.before = "socket" =>
              /\ did.result = "ok" /\ node = "socket"
              /\ srv_socket = "listening" /\ srv_isalive
        /\ did.before \in {"file", "socket_ro"} => node = did.before

\* The first open() found a stale socket file and succeeded.
C13_Witness ==
    /\ did = [call |-> "open", before |-> "socket", result |-> "ok"]
    /\ srv_socket = "listening" /\ acc.pc = "select" /\ pending > 0

\* C14: once recv() has returned empty, isalive() is false and, on a
\* connection that was not shut down or closed at this end, every later
\* send() or recv() raises.
C14_DeadAfterEmpty ==
    /\ eof => ~con_isalive
    /\ con_socket = "open" /\ con_did.late => con_did.result = "socket.error"

\* shutdown() has returned (stopped is in since) and an accept() call begun
\* then neither blocks, nor accepts, nor returns anything but None.
Sticky(since) ==
    /\ stopped \in since => ~srv_isalive
    /\ acc.after \in since /\ ~acc.torn =>
          /\ acc.pc # "accept"
          /\ acc.pc = "select" => SelectReturns(srv_socket, pending, shutdown_pipe)
          /\ ~Accepting => acc.ret = "None"

\* C19, as stated: from the return of shutdown() until close(), isalive()
\* is false and every accept() call returns None without waiting and
\* without accepting.
C19_StickyUntilClose == Sticky({"yes", "reopened"})

\* C19, amended: the same until close() or the next open().
C19_StickyUntilReopen == Sticky({"yes"})

\* An accept() call begun after shutdown() returned None with the backlog
\* full.
C19_Witness ==
    /\ stopped = "yes" /\ acc.after = "yes" /\ ~acc.torn /\ ~Accepting
    /\ acc.ret = "None" /\ pending = MaxPending

\* C20: whatever open(), shutdown() and close() calls are made, a file at
\* the address that is not a socket is still there after each of them.
C20_NonSocketKept == did.before = "file" => node = "file"

====
